---- MODULE Spec2Model ----
(***************************************************************************)
(* netdev: enumeration of the host's network interfaces                    *)
(* (src/interface/unix.rs), the MAC address value type (src/mac.rs) and    *)
(* the link-layer type table (src/interface/types.rs).                     *)
(*                                                                         *)
(* Three specifications share the variables:                               *)
(*   Spec      unix_interfaces() walking an OS address list                *)
(*   SpecMac   MacAddr parsing and formatting on bounded strings           *)
(*   SpecType  InterfaceType::value / try_from on the platform tables      *)
(*                                                                         *)
(* Option<T> is modelled as a sequence: None == << >>, Some(x) == <<x>>.   *)
(***************************************************************************)
EXTENDS Integers, Sequences, FiniteSets, TLC

VARIABLES
  platform,   \* target_os family the build was configured for
  oslist,     \* the address list the OS hands out (ifaddrs chain, in order)
  pc,         \* position inside unix_interfaces()
  rc,         \* return value of getifaddrs
  addr,       \* cursor into the list; Len(oslist)+1 is the null pointer
  ifaces,     \* Vec<Interface> being built
  freed,      \* number of freeifaddrs calls made
  idx,        \* cursor of the index pass
  lookups,    \* if_nametoindex calls made: sequence of <<name, result>>
  lastCall,   \* last sockaddr_to_network_addr call: <<argument, result>>
  ret,        \* value returned by unix_interfaces (Some/None)
  mpc,        \* SpecMac: position
  mstr,       \* SpecMac: string under work (sequence of characters)
  mac,        \* SpecMac: Option<MacAddr>
  mres,       \* SpecMac: result of the last parse
  tpc,        \* SpecType: position
  tvar,       \* SpecType: Option<InterfaceType> the code was taken from
  tcode,      \* SpecType: u32 code
  tres        \* SpecType: result of try_from

vars == <<platform, oslist, pc, rc, addr, ifaces, freed, idx, lookups,
          lastCall, ret, mpc, mstr, mac, mres, tpc, tvar, tcode, tres>>

enumVars == <<platform, oslist, pc, rc, addr, ifaces, freed, idx, lookups,
              lastCall, ret>>
macVars == <<mpc, mstr, mac, mres>>
typeVars == <<tpc, tvar, tcode, tres>>

None == << >>
Some(x) == <<x>>

(***************************************************************************)
(* Bounds                                                                  *)
(***************************************************************************)
MaxRecords == 3

\* interface names of the modelled host
Names == {"lo", "eth0"}

\* struct MacAddr(u8, u8, u8, u8, u8, u8)
MacAddr(a, b, c, d, e, f) == <<a, b, c, d, e, f>>

\* hardware and IP addresses of the modelled host
\* (a link-layer record also carries the length of the interface name)
HostLinks ==
  {[nlen |-> 2, mac |-> MacAddr(0, 0, 0, 0, 0, 0)],
   [nlen |-> 4, mac |-> MacAddr(2, 0, 0, 171, 16, 255)]}
HostV4 == {<<192, 0, 2, 1>>, <<192, 0, 2, 2>>}
HostV6 == {<<65152, 0, 0, 0, 0, 0, 0, 1>>}

(***************************************************************************)
(* The OS address list                                                     *)
(***************************************************************************)
LinuxLike == "linux"
BsdLike == "bsd"
UnixPlatforms == {LinuxLike, BsdLike}

\* a sockaddr as the kernel lays it out; fields a family does not use are empty
SockAddr(family, sll, nlen, sdl, ip) ==
  [sa_family |-> family, sll_addr |-> sll, sdl_nlen |-> nlen,
   sdl_data |-> sdl, sin_addr |-> ip]

\* sockaddr_ll: the address bytes sit at a fixed offset (8 bytes, 6 used)
SockAddrLl(m) == SockAddr("AF_PACKET", m \o <<0, 0>>, 0, << >>, << >>)

\* sockaddr_dl: sdl_data holds sdl_nlen name bytes, then the address bytes
SockAddrDl(nlen, m) ==
  SockAddr("AF_LINK", << >>, nlen, [i \in 1..nlen |-> 101] \o m, << >>)

SockAddrIn(a) == SockAddr("AF_INET", << >>, 0, << >>, a)
SockAddrIn6(a) == SockAddr("AF_INET6", << >>, 0, << >>, a)
SockAddrOther == SockAddr("AF_UNIX", << >>, 0, << >>, << >>)

SockAddrs(p) ==
  {IF p = LinuxLike THEN SockAddrLl(l.mac) ELSE SockAddrDl(l.nlen, l.mac) : l \in HostLinks}
  \cup {SockAddrIn(a) : a \in HostV4}
  \cup {SockAddrIn6(a) : a \in HostV6}
  \cup {SockAddrOther}

\* struct ifaddrs: ifa_name, ifa_addr (nullable); ifa_next is the list order
IfAddrs(p) ==
  [ifa_name : Names, ifa_addr : {None} \cup {Some(sa) : sa \in SockAddrs(p)}]

RECURSIVE SeqsUpTo(_, _)
SeqsUpTo(S, n) ==
  IF n = 0 THEN {<< >>}
  ELSE LET shorter == SeqsUpTo(S, n - 1)
       IN shorter \cup {Append(s, x) : s \in {t \in shorter : Len(t) = n - 1}, x \in S}

(***************************************************************************)
(* AddressResolver                                                         *)
(***************************************************************************)
Ok(x) == [ok |-> TRUE, val |-> x]
Err(e) == [ok |-> FALSE, val |-> e]

IpV4(a) == [v |-> "V4", ip |-> a]
IpV6(a) == [v |-> "V6", ip |-> a]

\* crate::sys::sockaddr_to_addr
sockaddr_to_addr(sa) ==
  IF sa.sa_family = "AF_INET" THEN Ok(IpV4(sa.sin_addr))
  ELSE IF sa.sa_family = "AF_INET6" THEN Ok(IpV6(sa.sin_addr))
  ELSE Err("InvalidInput")

\* the arm shared by both targets: everything that is not link-layer
IpArm(sa) ==
  LET a == sockaddr_to_addr(sa)
  IN IF a.ok THEN <<None, Some(a.val)>> ELSE <<None, None>>

\* a resolver that forgets the link-layer branch
sockaddr_to_network_addr_linux_nolink(sa) ==
  IF sa = None THEN <<None, None>> ELSE <<None, None>>

\* #[cfg(linux, android)] sockaddr_to_network_addr
sockaddr_to_network_addr_linux(sa) ==
  IF sa = None THEN <<None, None>>
  ELSE IF sa[1].sa_family = "AF_PACKET"
  THEN LET sll == sa[1].sll_addr
       IN <<Some(MacAddr(sll[1], sll[2], sll[3], sll[4], sll[5], sll[6])), None>>
  ELSE IpArm(sa[1])

\* #[cfg(bsd, macos, ios)] sockaddr_to_network_addr
sockaddr_to_network_addr_bsd(sa) ==
  IF sa = None THEN <<None, None>>
  ELSE IF sa[1].sa_family = "AF_LINK"
  THEN LET nlen == sa[1].sdl_nlen
           d == sa[1].sdl_data
       IN <<Some(MacAddr(d[nlen + 1], d[nlen + 2], d[nlen + 3],
                         d[nlen + 4], d[nlen + 5], d[nlen + 6])), None>>
  ELSE IpArm(sa[1])

sockaddr_to_network_addr(p, sa) ==
  IF p = LinuxLike THEN sockaddr_to_network_addr_linux(sa)
  ELSE sockaddr_to_network_addr_bsd(sa)

(***************************************************************************)
(* InterfaceEnumerator: unix_interfaces()                                  *)
(***************************************************************************)
Interface(index, name, mac_addr, ipv4, ipv6) ==
  [index |-> index, name |-> name, description |-> None,
   mac_addr |-> mac_addr, ipv4 |-> ipv4, ipv6 |-> ipv6, gateway |-> None]

\* a merge that replaces the address list instead of pushing onto it
MergeIntoReplacing(iface, m, ip) ==
  [iface EXCEPT
     !.mac_addr = IF m # None THEN m ELSE @,
     !.ipv4 = IF ip # None /\ ip[1].v = "V4" THEN <<ip[1].ip>> ELSE @,
     !.ipv6 = IF ip # None /\ ip[1].v = "V6" THEN <<ip[1].ip>> ELSE @]

\* a merge that stores the resolved mac unconditionally
MergeIntoClearing(iface, m, ip) ==
  [iface EXCEPT
     !.mac_addr = m,
     !.ipv4 = IF ip # None /\ ip[1].v = "V4" THEN Append(@, ip[1].ip) ELSE @,
     !.ipv6 = IF ip # None /\ ip[1].v = "V6" THEN Append(@, ip[1].ip) ELSE @]

\* body of `if name == iface.name { ... }`
MergeInto(iface, m, ip) ==
  [iface EXCEPT
     !.mac_addr = IF m # None THEN m ELSE @,
     !.ipv4 = IF ip # None /\ ip[1].v = "V4" THEN Append(@, ip[1].ip) ELSE @,
     !.ipv6 = IF ip # None /\ ip[1].v = "V6" THEN Append(@, ip[1].ip) ELSE @]

\* a walk step that pushes a new Interface for every record
PushAlways(found) == TRUE

\* `if !found { ifaces.push(interface) }`
PushNeeded(found) == ~found

EnumIdle ==
  /\ mpc = "off" /\ mstr = << >> /\ mac = None /\ mres = None
  /\ tpc = "off" /\ tvar = None /\ tcode = << >> /\ tres = None

Init ==
  /\ platform \in UnixPlatforms
  /\ oslist \in SeqsUpTo(IfAddrs(platform), MaxRecords)
  /\ pc = "start"
  /\ rc = 0
  /\ addr = 0
  /\ ifaces = << >>
  /\ freed = 0
  /\ idx = 0
  /\ lookups = << >>
  /\ lastCall = None
  /\ ret = None
  /\ EnumIdle

\* getifaddrs failed, but the early return is missing
BeginNoReturn ==
  /\ pc = "start"
  /\ \E r \in {0, -1} :
       /\ rc' = r
       /\ pc' = "walk" /\ addr' = 1 /\ ifaces' = << >> /\ ret' = ret
  /\ UNCHANGED <<platform, oslist, freed, idx, lookups, lastCall>>
  /\ UNCHANGED <<macVars, typeVars>>

\* ifaces = vec![]; getifaddrs(...); early return on failure
Begin ==
  /\ pc = "start"
  /\ \E r \in {0, -1} :
       /\ rc' = r
       /\ ifaces' = << >>
       /\ IF r # 0
          THEN pc' = "done" /\ ret' = Some(<< >>) /\ addr' = addr
          ELSE pc' = "walk" /\ addr' = 1 /\ ret' = ret
  /\ UNCHANGED <<platform, oslist, freed, idx, lookups, lastCall>>
  /\ UNCHANGED <<macVars, typeVars>>

\* one iteration of `while !addr.is_null()`
WalkRecord ==
  /\ pc = "walk"
  /\ addr <= Len(oslist)
  /\ LET addr_ref == oslist[addr]
         name == addr_ref.ifa_name
         res == sockaddr_to_network_addr(platform, addr_ref.ifa_addr)
         m == res[1]
         ip == res[2]
         ini_ipv4 == IF ip # None /\ ip[1].v = "V4" THEN <<ip[1].ip>> ELSE << >>
         ini_ipv6 == IF ip # None /\ ip[1].v = "V6" THEN <<ip[1].ip>> ELSE << >>
         interface == Interface(0, name, m, ini_ipv4, ini_ipv6)
         found == \E i \in 1..Len(ifaces) : name = ifaces[i].name
         merged == [i \in 1..Len(ifaces) |->
                      IF name = ifaces[i].name
                      THEN MergeInto(ifaces[i], m, ip) ELSE ifaces[i]]
     IN /\ ifaces' = IF PushNeeded(found) THEN Append(merged, interface) ELSE merged
        /\ lastCall' = Some(<<addr_ref.ifa_addr, res>>)
  /\ addr' = addr + 1
  /\ UNCHANGED <<platform, oslist, pc, rc, freed, idx, lookups, ret>>
  /\ UNCHANGED <<macVars, typeVars>>

\* the walk ends without releasing the list
FreeIfAddrsLeak ==
  /\ pc = "walk"
  /\ addr > Len(oslist)
  /\ freed' = freed
  /\ pc' = "index"
  /\ idx' = 1
  /\ UNCHANGED <<platform, oslist, rc, addr, ifaces, lookups, lastCall, ret>>
  /\ UNCHANGED <<macVars, typeVars>>

\* loop exit, then freeifaddrs(addrs)
FreeIfAddrs ==
  /\ pc = "walk"
  /\ addr > Len(oslist)
  /\ freed' = freed + 1
  /\ pc' = "index"
  /\ idx' = 1
  /\ UNCHANGED <<platform, oslist, rc, addr, ifaces, lookups, lastCall, ret>>
  /\ UNCHANGED <<macVars, typeVars>>

\* what if_nametoindex can answer for a name: 0 on failure, else its index
OsIndex(name) == {0, IF name = "lo" THEN 1 ELSE 2}

\* an index pass that gives up an interface whose lookup failed
IfNameToIndexDropFailed ==
  /\ pc = "index"
  /\ idx <= Len(ifaces)
  /\ \E r \in OsIndex(ifaces[idx].name) :
       /\ lookups' = Append(lookups, <<ifaces[idx].name, r>>)
       /\ IF r = 0
          THEN /\ ifaces' = SubSeq(ifaces, 1, idx - 1)
                              \o SubSeq(ifaces, idx + 1, Len(ifaces))
               /\ idx' = idx
          ELSE /\ ifaces' = [ifaces EXCEPT ![idx].index = r]
               /\ idx' = idx + 1
  /\ UNCHANGED <<platform, oslist, pc, rc, addr, freed, lastCall, ret>>
  /\ UNCHANGED <<macVars, typeVars>>

\* one iteration of the index pass
IfNameToIndex ==
  /\ pc = "index"
  /\ idx <= Len(ifaces)
  /\ \E r \in OsIndex(ifaces[idx].name) :
       /\ ifaces' = [ifaces EXCEPT ![idx].index = r]
       /\ lookups' = Append(lookups, <<ifaces[idx].name, r>>)
  /\ idx' = idx + 1
  /\ UNCHANGED <<platform, oslist, pc, rc, addr, freed, lastCall, ret>>
  /\ UNCHANGED <<macVars, typeVars>>

\* `ifaces` as the function's value
Return ==
  /\ pc = "index"
  /\ idx > Len(ifaces)
  /\ ret' = Some(ifaces)
  /\ pc' = "done"
  /\ UNCHANGED <<platform, oslist, rc, addr, ifaces, freed, idx, lookups, lastCall>>
  /\ UNCHANGED <<macVars, typeVars>>

Next == Begin \/ WalkRecord \/ FreeIfAddrs \/ IfNameToIndex \/ Return

Spec == Init /\ [][Next]_vars

(***************************************************************************)
(* HardwareAddress: src/mac.rs                                             *)
(***************************************************************************)
MaxFields == 7
MaxOdd == 3

HexLower == <<"0", "1", "2", "3", "4", "5", "6", "7", "8", "9",
              "a", "b", "c", "d", "e", "f">>
HexUpper == <<"0", "1", "2", "3", "4", "5", "6", "7", "8", "9",
              "A", "B", "C", "D", "E", "F">>

IsHexDigit(c) == \E k \in 1..16 : HexLower[k] = c \/ HexUpper[k] = c

\* char::to_digit(16)
HexVal(c) == (CHOOSE k \in 1..16 : HexLower[k] = c \/ HexUpper[k] = c) - 1

U8Max == 255

RECURSIVE radix_digits(_, _)
\* the checked multiply-and-add loop of from_str_radix
radix_digits(digits, acc) ==
  IF digits = << >> THEN Ok(acc)
  ELSE IF ~IsHexDigit(Head(digits)) THEN Err("InvalidDigit")
  ELSE LET nxt == acc * 16 + HexVal(Head(digits))
       IN IF nxt > U8Max THEN Err("PosOverflow")
          ELSE radix_digits(Tail(digits), nxt)

\* u8::from_str_radix(src, 16)
from_str_radix(src) ==
  IF src = << >> THEN Err("Empty")
  ELSE IF Len(src) = 1 /\ Head(src) \in {"+", "-"} THEN Err("InvalidDigit")
  ELSE IF Head(src) = "+" THEN radix_digits(Tail(src), 0)
  ELSE radix_digits(src, 0)

RECURSIVE split_from(_, _, _)
split_from(s, k, cur) ==
  IF k > Len(s) THEN <<cur>>
  ELSE IF s[k] = ":" THEN <<cur>> \o split_from(s, k + 1, << >>)
  ELSE split_from(s, k + 1, Append(cur, s[k]))

\* str::split(':')
split(s) == split_from(s, 1, << >>)

zero == MacAddr(0, 0, 0, 0, 0, 0)
broadcast == MacAddr(255, 255, 255, 255, 255, 255)

RECURSIVE from_str_loop(_, _, _)
\* `for split in splits` with the counter i (0-based) and parts
from_str_loop(splits, i, parts) ==
  IF i = Len(splits)
  THEN IF i = 6 THEN Ok(parts) ELSE Err("TooFewComponents")
  ELSE IF i = 6 THEN Err("TooManyComponents")
  ELSE LET sp == splits[i + 1]
           b == from_str_radix(sp)
       IN IF b.ok /\ Len(sp) # 0
          THEN from_str_loop(splits, i + 1, [parts EXCEPT ![i + 1] = b.val])
          ELSE Err("InvalidComponent")

\* a parser that pads missing components with zero
from_str_padding(s) ==
  LET r == from_str_loop(split(s), 0, zero)
  IN IF ~r.ok /\ r.val = "TooFewComponents" THEN Ok(zero) ELSE r

\* impl FromStr for MacAddr
from_str(s) == from_str_loop(split(s), 0, zero)

unwrap_or(r, d) == IF r.ok THEN r.val ELSE d

\* MacAddr::from_hex_format; indexing fields[k] out of bounds panics
from_hex_format(hex_mac_addr) ==
  IF Len(hex_mac_addr) # 17 THEN Ok(zero)
  ELSE LET fields == split(hex_mac_addr)
       IN IF Len(fields) < 6 THEN Err("panic")
          ELSE Ok(MacAddr(unwrap_or(from_str_radix(fields[1]), 0),
                          unwrap_or(from_str_radix(fields[2]), 0),
                          unwrap_or(from_str_radix(fields[3]), 0),
                          unwrap_or(from_str_radix(fields[4]), 0),
                          unwrap_or(from_str_radix(fields[5]), 0),
                          unwrap_or(from_str_radix(fields[6]), 0)))

\* {:x}
fmt_x(o) ==
  IF o < 16 THEN <<HexLower[o + 1]>>
  ELSE <<HexLower[(o \div 16) + 1], HexLower[(o % 16) + 1]>>

\* {:02x}
fmt_02x(o) == IF o < 16 THEN <<"0">> \o fmt_x(o) ELSE fmt_x(o)

\* formatting without the zero padding
address_unpadded(m) ==
  fmt_x(m[1]) \o <<":">> \o fmt_x(m[2]) \o <<":">> \o fmt_x(m[3]) \o <<":">>
  \o fmt_x(m[4]) \o <<":">> \o fmt_x(m[5]) \o <<":">> \o fmt_x(m[6])

\* MacAddr::address
address(m) ==
  fmt_02x(m[1]) \o <<":">> \o fmt_02x(m[2]) \o <<":">> \o fmt_02x(m[3]) \o <<":">>
  \o fmt_02x(m[4]) \o <<":">> \o fmt_02x(m[5]) \o <<":">> \o fmt_02x(m[6])

\* the field shapes the input strings are assembled from
CanonField == <<"0", "a">>
OddFields ==
  {<< >>, <<"f">>, <<"g", "1">>, <<"+", "F">>, <<"1", "0", "0">>,
   <<"0", "0", "b">>}

RECURSIVE Join(_)
Join(fs) ==
  IF Len(fs) = 1 THEN fs[1]
  ELSE fs[1] \o <<":">> \o Join(Tail(fs))

\* the field list of length n whose fields at the positions D are drawn by g
\* from OddFields and are CanonField elsewhere
FieldList(n, D, g) == [i \in 1..n |-> IF i \in D THEN g[i] ELSE CanonField]

OctetSamples == {0, 10, 171, 255}

MacAddrs ==
  {MacAddr(o[1], o[2], o[3], o[4], o[5], o[6]) : o \in [1..6 -> OctetSamples]}

EnumOff ==
  /\ platform = LinuxLike /\ oslist = << >> /\ pc = "off" /\ rc = 0
  /\ addr = 0 /\ ifaces = << >> /\ freed = 0 /\ idx = 0 /\ lookups = << >>
  /\ lastCall = None /\ ret = None

TypeOff == tpc = "off" /\ tvar = None /\ tcode = << >> /\ tres = None

InitMac ==
  /\ \/ /\ mpc = "input"
        /\ \E n \in 1..MaxFields :
             \E D \in {E \in SUBSET (1..n) : Cardinality(E) <= MaxOdd} :
               \E g \in [D -> OddFields] : mstr = Join(FieldList(n, D, g))
        /\ mac = None
     \/ mpc = "value" /\ mstr = << >> /\ mac \in {Some(m) : m \in MacAddrs}
  /\ mres = None
  /\ EnumOff
  /\ TypeOff

\* s.parse::<MacAddr>()
MacFromStr ==
  /\ mpc \in {"input", "formatted"}
  /\ LET r == from_str(mstr)
     IN /\ mres' = Some(r)
        /\ mac' = IF mpc = "input" THEN (IF r.ok THEN Some(r.val) ELSE None) ELSE mac
  /\ mpc' = IF mpc = "input" THEN "parsed" ELSE "reparsed"
  /\ UNCHANGED <<mstr, enumVars, typeVars>>

\* MacAddr::from_hex_format(s)
MacFromHexFormat ==
  /\ mpc = "input"
  /\ mres' = Some(from_hex_format(mstr))
  /\ mpc' = "lenient"
  /\ UNCHANGED <<mstr, mac, enumVars, typeVars>>

\* m.address()
MacAddress ==
  /\ mpc \in {"value", "parsed"}
  /\ mac # None
  /\ mstr' = address(mac[1])
  /\ mpc' = "formatted"
  /\ UNCHANGED <<mac, mres, enumVars, typeVars>>

NextMac == MacFromStr \/ MacFromHexFormat \/ MacAddress

SpecMac == InitMac /\ [][NextMac]_vars

(***************************************************************************)
(* LinkTypeTaxonomy: src/interface/types.rs                                *)
(***************************************************************************)
MaxCode == 810

\* a u32 as its two 16-bit halves <<high, low>>
U32(hi, lo) == <<hi, lo>>
U32Max == U32(65535, 65535)

WindowsLike == "windows"
TypePlatforms == {WindowsLike, LinuxLike, BsdLike}

\* enum InterfaceType, in declaration order
InterfaceType ==
  <<
    "Unknown", "Ethernet", "TokenRing", "Fddi", "BasicIsdn", "PrimaryIsdn",
    "Ppp", "Loopback", "Ethernet3Megabit", "Slip", "Atm", "GenericModem",
    "FastEthernetT", "Isdn", "FastEthernetFx", "Wireless80211",
    "AsymmetricDsl", "RateAdaptDsl", "SymmetricDsl", "VeryHighSpeedDsl",
    "IPOverAtm", "GigabitEthernet", "Tunnel", "MultiRateSymmetricDsl",
    "HighPerformanceSerialBus", "Wman", "Wwanpp", "Wwanpp2"
  >>

\* #[cfg(windows)] InterfaceType::value
value_windows(v) ==
  CASE v = "Unknown" -> U32(0, 1)
    [] v = "Ethernet" -> U32(0, 6)
    [] v = "TokenRing" -> U32(0, 9)
    [] v = "Fddi" -> U32(0, 15)
    [] v = "BasicIsdn" -> U32(0, 20)
    [] v = "PrimaryIsdn" -> U32(0, 21)
    [] v = "Ppp" -> U32(0, 23)
    [] v = "Loopback" -> U32(0, 24)
    [] v = "Ethernet3Megabit" -> U32(0, 26)
    [] v = "Slip" -> U32(0, 28)
    [] v = "Atm" -> U32(0, 37)
    [] v = "GenericModem" -> U32(0, 48)
    [] v = "FastEthernetT" -> U32(0, 62)
    [] v = "Isdn" -> U32(0, 63)
    [] v = "FastEthernetFx" -> U32(0, 69)
    [] v = "Wireless80211" -> U32(0, 71)
    [] v = "AsymmetricDsl" -> U32(0, 94)
    [] v = "RateAdaptDsl" -> U32(0, 95)
    [] v = "SymmetricDsl" -> U32(0, 96)
    [] v = "VeryHighSpeedDsl" -> U32(0, 97)
    [] v = "IPOverAtm" -> U32(0, 114)
    [] v = "GigabitEthernet" -> U32(0, 117)
    [] v = "Tunnel" -> U32(0, 131)
    [] v = "MultiRateSymmetricDsl" -> U32(0, 143)
    [] v = "HighPerformanceSerialBus" -> U32(0, 144)
    [] v = "Wman" -> U32(0, 237)
    [] v = "Wwanpp" -> U32(0, 243)
    [] v = "Wwanpp2" -> U32(0, 244)

\* #[cfg(linux, android)] InterfaceType::value
value_linux(v) ==
  CASE v = "Ethernet" -> U32(0, 1)
    [] v = "TokenRing" -> U32(0, 4)
    [] v = "Fddi" -> U32(0, 774)
    [] v = "Ppp" -> U32(0, 512)
    [] v = "Loopback" -> U32(0, 772)
    [] v = "Ethernet3Megabit" -> U32(0, 2)
    [] v = "Slip" -> U32(0, 256)
    [] v = "Atm" -> U32(0, 19)
    [] v = "Wireless80211" -> U32(0, 801)
    [] v = "Tunnel" -> U32(0, 768)
    [] OTHER -> U32Max

\* #[cfg(macos, bsd, ios)] InterfaceType::value
value_bsd(v) == U32(0, 0)

value(p, v) ==
  IF p = WindowsLike THEN value_windows(v)
  ELSE IF p = LinuxLike THEN value_linux(v)
  ELSE value_bsd(v)

\* the match arms of try_from, top to bottom
TryFromArms ==
  <<
    "Unknown", "Ethernet", "TokenRing", "Fddi", "BasicIsdn", "PrimaryIsdn",
    "Ppp", "Loopback", "Ethernet3Megabit", "Slip", "Atm", "GenericModem",
    "FastEthernetT", "Isdn", "FastEthernetFx", "Wireless80211",
    "AsymmetricDsl", "RateAdaptDsl", "SymmetricDsl", "VeryHighSpeedDsl",
    "IPOverAtm", "GigabitEthernet", "Tunnel", "MultiRateSymmetricDsl",
    "HighPerformanceSerialBus", "Wman", "Wwanpp", "Wwanpp2"
  >>

RECURSIVE try_from_arm(_, _, _)
try_from_arm(p, x, k) ==
  IF k > Len(TryFromArms) THEN Err("()")
  ELSE IF x = value(p, TryFromArms[k]) THEN Ok(TryFromArms[k])
  ELSE try_from_arm(p, x, k + 1)

RECURSIVE try_from_arm_rev(_, _, _)
try_from_arm_rev(p, x, k) ==
  IF k < 1 THEN Err("()")
  ELSE IF x = value(p, TryFromArms[k]) THEN Ok(TryFromArms[k])
  ELSE try_from_arm_rev(p, x, k - 1)

\* a lookup whose arms are tried bottom to top
try_from_last(p, x) == try_from_arm_rev(p, x, Len(TryFromArms))

\* impl TryFrom<u32> for InterfaceType
try_from(p, x) == try_from_arm(p, x, 1)

Codes == {U32(0, c) : c \in 0..MaxCode} \cup {U32(1, 1), U32Max}

InitType ==
  /\ platform \in TypePlatforms
  /\ tpc = "start"
  /\ tvar = None
  /\ tcode \in Codes
  /\ tres = None
  /\ oslist = << >> /\ pc = "off" /\ rc = 0 /\ addr = 0 /\ ifaces = << >>
  /\ freed = 0 /\ idx = 0 /\ lookups = << >> /\ lastCall = None /\ ret = None
  /\ mpc = "off" /\ mstr = << >> /\ mac = None /\ mres = None

\* v.value()
TypeValue ==
  /\ tpc = "start"
  /\ \E k \in 1..Len(InterfaceType) :
       /\ tvar' = Some(InterfaceType[k])
       /\ tcode' = value(platform, InterfaceType[k])
  /\ tpc' = "code"
  /\ UNCHANGED <<tres, enumVars, macVars>>

\* InterfaceType::try_from(code)
TypeTryFrom ==
  /\ tpc \in {"start", "code"}
  /\ tres' = Some(try_from(platform, tcode))
  /\ tpc' = "done"
  /\ UNCHANGED <<tvar, tcode, enumVars, macVars>>

NextType == TypeValue \/ TypeTryFrom

SpecType == InitType /\ [][NextType]_vars

(***************************************************************************)
(* Properties of unix_interfaces() (checked under Spec)                    *)
(***************************************************************************)
\* the records the walk has consumed so far
Processed ==
  IF pc = "walk" THEN SubSeq(oslist, 1, addr - 1)
  ELSE IF pc \in {"index", "done"} /\ addr > 0 THEN SubSeq(oslist, 1, addr - 1)
  ELSE << >>

IfacesNamed(n) == {i \in 1..Len(ifaces) : ifaces[i].name = n}
RecordsNamed(P, n) == {j \in 1..Len(P) : P[j].ifa_name = n}

IsFamily(r, fam) == r.ifa_addr # None /\ r.ifa_addr[1].sa_family = fam

\* the record carries the platform's link-layer family tag
IsLinkLayer(r) ==
  IsFamily(r, IF platform = LinuxLike THEN "AF_PACKET" ELSE "AF_LINK")

\* the six address bytes of a link-layer record, read off the raw layout
HwAddrOf(r) ==
  IF platform = LinuxLike THEN SubSeq(r.ifa_addr[1].sll_addr, 1, 6)
  ELSE SubSeq(r.ifa_addr[1].sdl_data, r.ifa_addr[1].sdl_nlen + 1,
              r.ifa_addr[1].sdl_nlen + 6)

RECURSIVE AddrsOf(_, _, _)
\* the addresses of family fam carried by the records named n, in list order
AddrsOf(P, n, fam) ==
  IF P = << >> THEN << >>
  ELSE (IF Head(P).ifa_name = n /\ IsFamily(Head(P), fam)
        THEN <<Head(P).ifa_addr[1].sin_addr>> ELSE << >>)
       \o AddrsOf(Tail(P), n, fam)

\* C1: at every point of the walk and after it, the result holds exactly one
\* Interface for each name that occurred in the processed records and none
\* for any other name.
TheoremC1 ==
  \A n \in Names :
    Cardinality(IfacesNamed(n)) =
      IF RecordsNamed(Processed, n) # {} THEN 1 ELSE 0

WitnessC1 ==
  /\ pc = "walk" /\ addr = 4
  /\ Len(ifaces) = 2
  /\ oslist[1].ifa_name = oslist[3].ifa_name
  /\ oslist[1].ifa_name # oslist[2].ifa_name

\* C2: each interface's ipv4 (ipv6) is exactly the list of IPv4 (IPv6)
\* addresses of the processed records with its name, in OS order, repeats
\* kept.
TheoremC2 ==
  \A i \in 1..Len(ifaces) :
    /\ ifaces[i].ipv4 = AddrsOf(Processed, ifaces[i].name, "AF_INET")
    /\ ifaces[i].ipv6 = AddrsOf(Processed, ifaces[i].name, "AF_INET6")

WitnessC2 ==
  /\ pc = "done" /\ ret # None /\ Len(ret[1]) = 1
  /\ Len(oslist) = 3
  /\ oslist[1] = oslist[2] /\ IsFamily(oslist[1], "AF_INET")
  /\ IsFamily(oslist[3], "AF_INET") /\ oslist[3] # oslist[1]
  /\ ret[1][1].ipv4 = <<oslist[1].ifa_addr[1].sin_addr,
                        oslist[1].ifa_addr[1].sin_addr,
                        oslist[3].ifa_addr[1].sin_addr>>

\* C3 as stated: every finished call has released the list exactly once.
OriginalC3 == pc = "done" => freed = 1

\* C3 amended: the list is released exactly once when getifaddrs succeeded
\* and not at all when it failed; it is never released twice, and it is
\* released only after the walk.
TheoremC3 ==
  /\ freed <= 1
  /\ pc = "done" => freed = (IF rc = 0 THEN 1 ELSE 0)
  /\ freed = 1 => pc \in {"index", "done"} /\ addr = Len(oslist) + 1

WitnessC3 ==
  /\ pc = "done" /\ rc = 0 /\ freed = 1 /\ Len(oslist) = 3 /\ addr = 4

NoneNone == <<None, None>>

\* C4 as stated: a resolver call populates exactly one of (mac, ip) unless
\* the pointer is null, where both are None.
OriginalC4 ==
  lastCall # None =>
    LET sa == lastCall[1][1]
        r == lastCall[1][2]
    IN IF sa = None THEN r = NoneNone
       ELSE (r[1] # None) # (r[2] # None)

\* C4 amended: a resolver call never populates both; it populates the
\* hardware address exactly for a link-layer sockaddr, the IP exactly for an
\* AF_INET / AF_INET6 sockaddr, and neither for a null pointer or any other
\* family.
TheoremC4 ==
  lastCall # None =>
    LET sa == lastCall[1][1]
        r == lastCall[1][2]
        link == IF platform = LinuxLike THEN "AF_PACKET" ELSE "AF_LINK"
    IN /\ ~(r[1] # None /\ r[2] # None)
       /\ r[1] # None <=> (sa # None /\ sa[1].sa_family = link)
       /\ r[2] # None <=> (sa # None /\ sa[1].sa_family \in {"AF_INET", "AF_INET6"})

WitnessC4 ==
  /\ lastCall # None
  /\ lastCall[1][1] # None
  /\ lastCall[1][1][1].sa_family = "AF_UNIX"
  /\ lastCall[1][2] = NoneNone

\* C9: a call whose getifaddrs failed is finished at once with the empty
\* vector: no record resolved or merged, no if_nametoindex call; and every
\* finished call has a vector as its value.
TheoremC9 ==
  /\ pc = "done" => ret # None
  /\ (pc # "start" /\ rc # 0) =>
       /\ pc = "done"
       /\ ret = Some(<< >>)
       /\ ifaces = << >>
       /\ addr = 0
       /\ lastCall = None
       /\ lookups = << >>

WitnessC9 ==
  pc = "done" /\ rc # 0 /\ ret = Some(<< >>) /\ Len(oslist) = 3

RECURSIVE LastMac(_, _)
\* the hardware address of the last link-layer record named n, if any
LastMac(P, n) ==
  IF P = << >> THEN None
  ELSE LET r == P[Len(P)]
       IN IF r.ifa_name = n /\ IsLinkLayer(r) THEN Some(HwAddrOf(r))
          ELSE LastMac(SubSeq(P, 1, Len(P) - 1), n)

\* C10: each interface's mac_addr is the hardware address of the last
\* link-layer record processed for its name, None when there was none; and
\* a link-layer record plus an IPv4 record of one name, in either order,
\* give one Interface with mac_addr set and one ipv4 entry.
TheoremC10 ==
  /\ \A i \in 1..Len(ifaces) :
       ifaces[i].mac_addr = LastMac(Processed, ifaces[i].name)
  /\ \A a \in 1..2 :
       LET P == Processed
       IN (/\ Len(P) = 2
           /\ P[1].ifa_name = P[2].ifa_name
           /\ IsLinkLayer(P[a]) /\ IsFamily(P[3 - a], "AF_INET"))
          => /\ Len(ifaces) = 1
             /\ ifaces[1].mac_addr # None
             /\ Len(ifaces[1].ipv4) = 1

WitnessC10 ==
  /\ pc = "walk" /\ addr = 4 /\ Len(ifaces) = 1
  /\ IsLinkLayer(oslist[1]) /\ IsLinkLayer(oslist[2])
  /\ oslist[1] # oslist[2]
  /\ IsFamily(oslist[3], "AF_INET")
  /\ ifaces[1].mac_addr = Some(HwAddrOf(oslist[2]))
  /\ ifaces[1].ipv4 = <<oslist[3].ifa_addr[1].sin_addr>>

(***************************************************************************)
(* Properties of MacAddr (checked under SpecMac)                           *)
(***************************************************************************)
RECURSIVE PosValue(_)
\* positional base-16 value of a digit string
PosValue(d) ==
  IF d = << >> THEN 0
  ELSE 16 * PosValue(SubSeq(d, 1, Len(d) - 1)) + HexVal(d[Len(d)])

AllHex(d) == \A k \in 1..Len(d) : IsHexDigit(d[k])

\* exactly two hex digits
TwoHexDigits(f) == Len(f) = 2 /\ AllHex(f)

StripPlus(f) == IF f # << >> /\ f[1] = "+" THEN Tail(f) ELSE f

\* an optional '+', then one or more hex digits whose value fits a byte
ByteField(f) ==
  LET d == StripPlus(f)
  IN d # << >> /\ AllHex(d) /\ PosValue(d) <= 255

Malformed(s) ==
  \/ Len(s) # 17
  \/ Len(split(s)) # 6
  \/ \E k \in 1..Len(split(s)) : ~ByteField(split(s)[k])

\* C6 as stated: from_hex_format returns a value for every input, and the
\* all-zero address for every malformed input.
OriginalC6 ==
  mpc = "lenient" =>
    /\ mres # None /\ mres[1].ok
    /\ Malformed(mstr) => mres[1].val = zero

LowerHexDigits == {HexLower[k] : k \in 1..16}

\* C8: address() gives 17 characters, ':' at every third place and two
\* lower-case hex digits spelling each octet, and parsing that string gives
\* the address back.
TheoremC8 ==
  /\ mpc \in {"formatted", "reparsed"} =>
       /\ Len(mstr) = 17
       /\ \A k \in 1..17 :
            IF k % 3 = 0 THEN mstr[k] = ":" ELSE mstr[k] \in LowerHexDigits
       /\ \A i \in 1..6 :
            16 * HexVal(mstr[3 * i - 2]) + HexVal(mstr[3 * i - 1]) = mac[1][i]
  /\ mpc = "reparsed" => mres = Some(Ok(mac[1]))

WitnessC8 ==
  /\ mpc = "reparsed"
  /\ mac # None /\ mac[1][1] = 10 /\ mac[1][2] = 171 /\ mac[1][3] = 0
  /\ mres = Some(Ok(mac[1]))

(***************************************************************************)
(* Properties of InterfaceType (checked under SpecType)                    *)
(***************************************************************************)
\* positions, in declaration order, of the variants whose code is c
Matches(c) ==
  {k \in 1..Len(InterfaceType) : value(platform, InterfaceType[k]) = c}

UniqueCode(v) ==
  \A k \in 1..Len(InterfaceType) :
    InterfaceType[k] # v => value(platform, InterfaceType[k]) # value(platform, v)

\* C7: try_from(c) is Ok of the first-declared variant whose value() is c and
\* the error exactly when there is none; so a variant with a unique code
\* round-trips, and on a collision the first-declared variant wins.
TheoremC7 ==
  tpc = "done" =>
    LET r == tres[1]
        ms == Matches(tcode)
    IN /\ ~r.ok <=> ms = {}
       /\ ms # {} =>
            r = Ok(InterfaceType[CHOOSE k \in ms : \A j \in ms : k <= j])
       /\ (tvar # None /\ UniqueCode(tvar[1])) => r = Ok(tvar[1])

WitnessC7 ==
  /\ tpc = "done"
  /\ platform = LinuxLike
  /\ tvar = Some("Wwanpp2")
  /\ tcode = U32Max
  /\ tres = Some(Ok("Unknown"))

(***************************************************************************)
(* The index pass of unix_interfaces() (checked under Spec)                *)
(***************************************************************************)
\* where the index pass stands: lookups made so far, all after the release,
\* one per interface in order, each result stored as that interface's index
\* (0, the placeholder, when the lookup failed)
IndexPassState ==
  /\ lookups # << >> => (freed = 1 /\ pc \in {"index", "done"})
  /\ pc \in {"start", "walk"} => \A i \in 1..Len(ifaces) : ifaces[i].index = 0
  /\ pc = "index" => Len(lookups) = idx - 1
  /\ (pc = "done" /\ rc = 0) => (Len(lookups) = Len(ifaces) /\ ret = Some(ifaces))
  /\ Len(lookups) <= Len(ifaces)
  /\ \A i \in 1..Len(ifaces) :
       IF i <= Len(lookups)
       THEN /\ lookups[i][1] = ifaces[i].name
            /\ lookups[i][2] \in OsIndex(ifaces[i].name)
            /\ ifaces[i].index = lookups[i][2]
       ELSE ifaces[i].index = 0

\* what one lookup may change: the index of the interface looked up
IndexPassStep ==
  (Len(lookups') = Len(lookups) + 1) =>
    /\ Len(ifaces') = Len(ifaces)
    /\ \A i \in 1..Len(ifaces) :
         /\ ifaces'[i].name = ifaces[i].name
         /\ ifaces'[i].description = ifaces[i].description
         /\ ifaces'[i].mac_addr = ifaces[i].mac_addr
         /\ ifaces'[i].ipv4 = ifaces[i].ipv4
         /\ ifaces'[i].ipv6 = ifaces[i].ipv6
         /\ ifaces'[i].gateway = ifaces[i].gateway
         /\ i # Len(lookups) + 1 => ifaces'[i].index = ifaces[i].index
    /\ pc' = "index"

\* C11: if_nametoindex is called only after the list was released, once per
\* interface of the result and in order; each interface's index is the
\* lookup's result, which is 0 (the placeholder) when the lookup failed; a
\* lookup, failed or not, leaves the number of interfaces, every other
\* interface's index and every name, mac_addr, ipv4 and ipv6 as they were,
\* and the pass goes on.
TheoremC11 == [](IndexPassState) /\ [][IndexPassStep]_vars

WitnessC11 ==
  /\ pc = "done" /\ rc = 0
  /\ ret # None /\ Len(ret[1]) = 2
  /\ ret[1][1].index = 0 /\ ret[1][1].mac_addr # None
  /\ ret[1][2].index # 0 /\ ret[1][2].ipv4 # << >>
  /\ lookups = <<<<ret[1][1].name, 0>>, <<ret[1][2].name, ret[1][2].index>>>>

====
